---- MODULE Spec2Model ----
(***************************************************************************)
(* Model of the agent orchestration pipeline of megh21/simpleagent:        *)
(* agents.execute_agents_parallel (research fan-out, merge, synthesis      *)
(* fan-out, source extraction), the HTTP handlers of main.py that call it, *)
(* and the conversation message store of database.py / memory.py.          *)
(*                                                                         *)
(* Conventions.                                                            *)
(*  - A Python str is a sequence of tokens (substrings); concatenation is  *)
(*    \o and the empty string is <<>>.                                     *)
(*  - An Optional value is a sequence of length at most one: <<>> is None  *)
(*    and <<v>> is the value v.                                            *)
(*  - A Python dict is a function whose DOMAIN is its key set.             *)
(*  - The event loop is single threaded: the code between two awaits is    *)
(*    one atomic action.                                                   *)
(***************************************************************************)
EXTENDS Integers, Sequences, FiniteSets, TLC

VARIABLES
    endpoint,           \* the main.py handler serving the request ("none" before it)
    http,               \* handler position: idle / awaiting / returned / error
    response,           \* Optional: what the handler returned to the client
    query,              \* execute_agents_parallel parameter
    doc_ids,            \* execute_agents_parallel parameter, Optional[List[str]]
    include_web_search, \* execute_agents_parallel parameter
    pc,                 \* position of the execute_agents_parallel coroutine
    tasks,              \* agents.py:109 list of bucket names, in creation order
    idx,                \* position of the for loop of agents.py:129
    task,               \* asyncio tasks: name -> [state, input, result]
    research_results,   \* agents.py:128 dict bucket name -> text
    combined_research,  \* agents.py:134 evidence transcript
    answer,             \* agents.py:163
    validation,         \* agents.py:164
    sources,            \* agents.py:167
    result,             \* Optional: the dict execute_agents_parallel returned
    exception,          \* "" or the exception that left a coroutine / handler
    settled,            \* history: task names in the order their calls ended
    conversations,      \* rows of the conversations table (ids)
    messages,           \* rows of the messages table, in insertion order
    last_read           \* Optional: rows the last GET /conversations/{id} returned

vars == <<endpoint, http, response, query, doc_ids, include_web_search, pc,
          tasks, idx, task, research_results, combined_research, answer,
          validation, sources, result, exception, settled, conversations,
          messages, last_read>>

runVars == <<query, doc_ids, include_web_search, pc, tasks, idx, task,
             research_results, combined_research, answer, validation,
             sources, result, settled>>

storeVars == <<conversations, messages, last_read>>

----------------------------------------------------------------------------
(* Bounds of the model *)

MaxDocIds == 2          \* longest doc_ids list a request carries
MaxMessages == 3        \* rows the messages table may hold
MaxConversations == 2   \* rows the conversations table may hold
MaxSharedRows == 1      \* rows either table may hold beside a run of the core

(* Program constants *)

ExecParams == 3         \* positional parameters of execute_agents_parallel

----------------------------------------------------------------------------
(* Values *)

None == <<>>
Some(v) == <<v>>

DocIdPool == <<"d1", "d2", "d3", "d4">>
DocIdLists == {SubSeq(DocIdPool, 1, n) : n \in 0..MaxDocIds}
Queries == {"capital of France"}

DOCUMENT_RESEARCH == "document_research"
WEB_RESEARCH == "web_research"
WRITING == "writing"
VALIDATION == "validation"
TaskNames == {DOCUMENT_RESEARCH, WEB_RESEARCH, WRITING, VALIDATION}

NO_SOURCES_ANSWER ==
    <<"No sources available for research. Please select at least one document or enable web search.">>
NO_INFORMATION == <<"No information found.">>
NO_ANSWER == <<"Could not generate an answer.">>
NO_VALIDATION == <<"No validation performed.">>
DOCUMENT_HEADER == "DOCUMENT SOURCES:\n"
WEB_HEADER == "WEB SOURCES:\n"
SECTION_END == "\n\n"

----------------------------------------------------------------------------
(* Texts the research agents can answer with.  A document answer is a      *)
(* sequence of substrings (JSON punctuation, the word results, whole JSON  *)
(* values, prose); a web answer is a sequence of lines.                    *)

QUOTE == "\""
RESULTS == "results"
REC_GEO == "{\"title\": \"Geo\", \"content\": \"Paris is the capital\", \"page\": 1}"
REC_MAP == "{\"title\": \"Map\", \"content\": \"France is in Europe\", \"page\": 2}"
JsonObjectTokens == {REC_GEO, REC_MAP}
JsonNumberTokens == {"1"}
JsonValueTokens == JsonObjectTokens \cup JsonNumberTokens

DocOutputs ==
    { <<>>,
      <<"Paris is the capital of France.">>,
      <<"The ", RESULTS, " are inconclusive.">>,
      <<"{", QUOTE, RESULTS, QUOTE, ":", "[", REC_GEO, ",", REC_MAP, "]", "}">>,
      <<"{", QUOTE, RESULTS, QUOTE, ":", "[", REC_GEO, ",", "1", "]", "}">>,
      <<RESULTS, ":", "[", REC_GEO, "]", "}">>,
      <<RESULTS, QUOTE, ":", "[", "]", "}", " and more ", RESULTS>> }

SEARCH_RESULTS == "Search Results:"
TitleLines == {"Title: Paris", "Title: France"}
SnippetLines == {"Snippet: capital of France", "Snippet: a country"}
LinkLines == {"Link: https://a.example", "Link: https://b.example"}

WebOutputs ==
    { <<>>,
      <<"Paris is the capital of France.">>,
      <<"Title: Paris", "Snippet: capital of France", "Link: https://a.example">>,
      <<SEARCH_RESULTS, "nothing relevant was found">>,
      <<SEARCH_RESULTS, "Title: Paris", "Snippet: capital of France",
        "Link: https://a.example">>,
      <<SEARCH_RESULTS, "Title: Paris", "Snippet: capital of France",
        "Link: https://a.example", "Title: France", "Snippet: a country",
        "Link: https://b.example">>,
      <<SEARCH_RESULTS, "Title: Paris", "Snippet: capital of France",
        "Link: https://a.example", "Title: France", "Snippet: a country">> }

WritingOutputs == { <<"Paris.">> }
ValidationOutputs == { <<"The evidence is consistent.">> }

(* What an AgentExecutor.ainvoke call can resolve to: a dict with an       *)
(* "output" key, or a dict without one.                                    *)
AgentDicts(texts) == {[output |-> t] : t \in texts} \cup {[log |-> <<>>]}

OutputsOf(name) ==
    CASE name = DOCUMENT_RESEARCH -> DocOutputs
      [] name = WEB_RESEARCH -> WebOutputs
      [] name = WRITING -> WritingOutputs
      [] name = VALIDATION -> ValidationOutputs

----------------------------------------------------------------------------
(* Python built-ins used by the pipeline *)

\* dict.get(key, default)
Get(dict, key, default) == IF key \in DOMAIN dict THEN dict[key] ELSE default

\* `tok in s` for a substring that is one token
Contains(s, tok) == \E i \in 1..Len(s) : s[i] = tok

\* str.split(sep): the parts of s between the occurrences of sep
RECURSIVE Split(_, _)
Split(s, sep) ==
    IF Contains(s, sep)
    THEN LET i == CHOOSE k \in 1..Len(s) :
                      s[k] = sep /\ \A j \in 1..(k - 1) : s[j] # sep
         IN <<SubSeq(s, 1, i - 1)>> \o Split(SubSeq(s, i + 1, Len(s)), sep)
    ELSE <<s>>

\* str.lower() on the lines the model uses
Lower(tok) == IF tok = SEARCH_RESULTS THEN "search results:" ELSE tok

\* the elements of a JSON array body: value ("," value)*
RECURSIVE JsonElements(_)
JsonElements(toks) ==
    IF toks = <<>> \/ toks[1] \notin JsonValueTokens THEN None
    ELSE IF Len(toks) = 1 THEN Some(<<toks[1]>>)
    ELSE IF toks[2] # "," THEN None
    ELSE LET rest == JsonElements(SubSeq(toks, 3, Len(toks)))
         IN IF rest = None THEN None ELSE Some(<<toks[1]>> \o rest[1])

\* json.loads on a text that opens an object: None is JSONDecodeError.
\* The one document accepted is {"results": [ value, ... ]}; an object has
\* to be closed by its brace.
JsonLoads(toks) ==
    LET n == Len(toks)
        open == <<"{", QUOTE, RESULTS, QUOTE, ":", "[">>
    IN IF n >= 8 /\ SubSeq(toks, 1, 6) = open /\ toks[n - 1] = "]" /\ toks[n] = "}"
       THEN LET body == SubSeq(toks, 7, n - 2)
                elems == IF body = <<>> THEN Some(<<>>) ELSE JsonElements(body)
            IN IF elems = None THEN None ELSE Some([results |-> elems[1]])
       ELSE None

\* the dict json.loads builds for an object token
JsonObject(tok) ==
    IF tok = REC_GEO
    THEN [title |-> "Geo", content |-> "Paris is the capital", page |-> "1"]
    ELSE [title |-> "Map", content |-> "France is in Europe", page |-> "2"]

----------------------------------------------------------------------------
(* Source extraction, agents.py:166-205.  Each block yields the records it *)
(* appended to sources and the exception raised inside its try statement   *)
(* ("" when none was).                                                     *)

\* for source in doc_sources: source["type"] = "document"; sources.append(source)
\* A value that is no dict raises TypeError after the earlier appends.
RECURSIVE TagDocuments(_)
TagDocuments(items) ==
    IF items = <<>> THEN [sources |-> <<>>, error |-> ""]
    ELSE IF items[1] \notin JsonObjectTokens
    THEN [sources |-> <<>>, error |-> "TypeError"]
    ELSE LET rest == TagDocuments(Tail(items))
             rec == JsonObject(items[1])
             tagged == [k \in DOMAIN rec \cup {"type"} |->
                           IF k = "type" THEN "document" ELSE rec[k]]
         IN [sources |-> <<tagged>> \o rest.sources, error |-> rest.error]

\* agents.py:175-176
ResultsStr(doc_output) ==
    <<"{", QUOTE, RESULTS, QUOTE>>
        \o Split(Split(doc_output, RESULTS)[2], "]")[1] \o <<"]">>

\* agents.py:172-180, the body of the document block
ParseDocumentSources(doc_output) ==
    IF ~Contains(doc_output, RESULTS) THEN [sources |-> <<>>, error |-> ""]
    ELSE LET loaded == JsonLoads(ResultsStr(doc_output))
         IN IF loaded = None
            THEN [sources |-> <<>>, error |-> "JSONDecodeError"]
            ELSE TagDocuments(Get(loaded[1], "results", <<>>))

\* first index >= from of a line of the set S, 0 when there is none
FirstLine(lines, from, S) ==
    IF \E i \in from..Len(lines) : lines[i] \in S
    THEN CHOOSE i \in from..Len(lines) :
             lines[i] \in S /\ \A j \in from..(i - 1) : lines[j] \notin S
    ELSE 0

\* the text of a line after its "Title: ", "Snippet: " or "Link: " label
Unlabelled(line) ==
    CASE line = "Title: Paris" -> "Paris"
      [] line = "Title: France" -> "France"
      [] line = "Snippet: capital of France" -> "capital of France"
      [] line = "Snippet: a country" -> "a country"
      [] line = "Link: https://a.example" -> "https://a.example"
      [] line = "Link: https://b.example" -> "https://b.example"
      [] OTHER -> line

\* variant: the web block copies the tag of the document block
RECURSIVE FindAllTaggedDocument(_, _)
FindAllTaggedDocument(lines, from) ==
    LET p == FirstLine(lines, from, TitleLines)
        q == IF p = 0 THEN 0 ELSE FirstLine(lines, p + 1, SnippetLines)
        r == IF q = 0 THEN 0 ELSE FirstLine(lines, q + 1, LinkLines)
    IN IF r = 0 THEN <<>>
       ELSE <<[title |-> <<Unlabelled(lines[p])>> \o SubSeq(lines, p + 1, q - 1),
               content |-> <<Unlabelled(lines[q])>> \o SubSeq(lines, q + 1, r - 1),
               link |-> Unlabelled(lines[r]),
               type |-> "document"]>> \o FindAllTaggedDocument(lines, r + 1)

\* re.findall(r"Title: (.*?)\nSnippet: (.*?)\nLink: (.*?)(?:\n|$)", text, re.DOTALL)
\* from line `from` on: the lazy groups run to the first later Snippet line
\* and the first later Link line, across lines (DOTALL).
RECURSIVE FindAll(_, _)
FindAll(lines, from) ==
    LET p == FirstLine(lines, from, TitleLines)
        q == IF p = 0 THEN 0 ELSE FirstLine(lines, p + 1, SnippetLines)
        r == IF q = 0 THEN 0 ELSE FirstLine(lines, q + 1, LinkLines)
    IN IF r = 0 THEN <<>>
       ELSE <<[title |-> <<Unlabelled(lines[p])>> \o SubSeq(lines, p + 1, q - 1),
               content |-> <<Unlabelled(lines[q])>> \o SubSeq(lines, q + 1, r - 1),
               link |-> Unlabelled(lines[r]),
               type |-> "web"]>> \o FindAll(lines, r + 1)

\* variant: one Title line without its Snippet and Link lines fails the whole
\* web text, no record is listed
ParseWebSourcesAllOrNothing(web_output) ==
    IF /\ \E i \in 1..Len(web_output) : Lower(web_output[i]) = "search results:"
       /\ \A i \in 1..Len(web_output) :
              web_output[i] \in TitleLines =>
                  /\ i + 2 <= Len(web_output)
                  /\ web_output[i + 1] \in SnippetLines
                  /\ web_output[i + 2] \in LinkLines
    THEN [sources |-> FindAll(web_output, 1), error |-> ""]
    ELSE [sources |-> <<>>, error |-> ""]

\* agents.py:187-203, the body of the web block
ParseWebSources(web_output) ==
    IF \E i \in 1..Len(web_output) : Lower(web_output[i]) = "search results:"
    THEN [sources |-> FindAll(web_output, 1), error |-> ""]
    ELSE [sources |-> <<>>, error |-> ""]

\* variant: no try statement around the parsing, the exception propagates
Propagated(error) == error

\* the bare `except: pass` of agents.py:181-182 and 204-205: the exception
\* that leaves the try statement
Uncaught(error) == ""

----------------------------------------------------------------------------
(* Evidence merger, agents.py:133-138 *)

\* variant: the web section is written first
CombineResearchWebFirst(results) ==
    (IF WEB_RESEARCH \in DOMAIN results
     THEN <<WEB_HEADER>> \o results[WEB_RESEARCH] \o <<SECTION_END>>
     ELSE <<>>)
    \o
    (IF DOCUMENT_RESEARCH \in DOMAIN results
     THEN <<DOCUMENT_HEADER>> \o results[DOCUMENT_RESEARCH] \o <<SECTION_END>>
     ELSE <<>>)

\* variant: a bucket whose text is empty gets no section
CombineResearchSkipEmpty(results) ==
    (IF DOCUMENT_RESEARCH \in DOMAIN results /\ results[DOCUMENT_RESEARCH] # <<>>
     THEN <<DOCUMENT_HEADER>> \o results[DOCUMENT_RESEARCH] \o <<SECTION_END>>
     ELSE <<>>)
    \o
    (IF WEB_RESEARCH \in DOMAIN results /\ results[WEB_RESEARCH] # <<>>
     THEN <<WEB_HEADER>> \o results[WEB_RESEARCH] \o <<SECTION_END>>
     ELSE <<>>)

CombineResearch(results) ==
    (IF DOCUMENT_RESEARCH \in DOMAIN results
     THEN <<DOCUMENT_HEADER>> \o results[DOCUMENT_RESEARCH] \o <<SECTION_END>>
     ELSE <<>>)
    \o
    (IF WEB_RESEARCH \in DOMAIN results
     THEN <<WEB_HEADER>> \o results[WEB_RESEARCH] \o <<SECTION_END>>
     ELSE <<>>)

(* Prompts, agents.py:115, 123, 149, 155 *)

ResearchInput(q) == <<"Find information related to: ", q>>
WebInput(q) == <<"Search the web for information about: ", q>>
WritingInput(q, transcript) ==
    <<"Create a comprehensive answer to the query: '", q,
      "' based on this information: ">> \o transcript
\* variant: the validation prompt carries the transcript's first section only
ValidationInputFirstSection(transcript) ==
    <<"Validate this information and check for any inconsistencies or missing details: ">>
        \o Split(transcript, SECTION_END)[1] \o <<SECTION_END>>

ValidationInput(transcript) ==
    <<"Validate this information and check for any inconsistencies or missing details: ">>
        \o transcript

----------------------------------------------------------------------------
(* State after construction: no request received, empty tables *)

EmptyDict == [k \in {} |-> <<>>]
NoTask == [state |-> "none", input |-> <<>>, result |-> None]
Running(input) == [state |-> "running", input |-> input, result |-> None]

\* variant: `if doc_ids is not None`, an empty list selects the documents
SelectedNotNone(ids) == ids # None

\* Python truth value of an Optional[List]: `doc_ids and len(doc_ids) > 0`
Selected(ids) == ids # None /\ Len(ids[1]) > 0

SENTINEL == [answer |-> NO_SOURCES_ANSWER, sources |-> <<>>]

Init ==
    /\ endpoint = "none"
    /\ http = "idle"
    /\ response = None
    /\ query = ""
    /\ doc_ids = None
    /\ include_web_search = FALSE
    /\ pc = "not_called"
    /\ tasks = <<>>
    /\ idx = 1
    /\ task = [n \in TaskNames |-> NoTask]
    /\ research_results = EmptyDict
    /\ combined_research = <<>>
    /\ answer = <<>>
    /\ validation = <<>>
    /\ sources = <<>>
    /\ result = None
    /\ exception = ""
    /\ settled = <<>>
    /\ conversations = {}
    /\ messages = <<>>
    /\ last_read = None

----------------------------------------------------------------------------
(* execute_agents_parallel, agents.py:108-211 *)

\* variant: only the writing task is created before the wait, the validation
\* task is left for after the writing task's answer
MergeAndFanOutWritingFirst(q, results, tk) ==
    LET combined == CombineResearch(results)
    IN /\ combined_research' = combined
       /\ IF combined = <<>>
          THEN /\ result' = Some(SENTINEL)
               /\ pc' = "returned"
               /\ task' = tk
          ELSE /\ result' = result
               /\ pc' = "await_gather"
               /\ task' = [tk EXCEPT
                     ![WRITING] = Running(WritingInput(q, combined))]

\* variant: the sentinel is returned when every bucket's text is empty
MergeAndFanOutOnText(q, results, tk) ==
    LET combined == CombineResearch(results)
    IN /\ combined_research' = combined
       /\ IF \A k \in DOMAIN results : results[k] = <<>>
          THEN /\ result' = Some(SENTINEL)
               /\ pc' = "returned"
               /\ task' = tk
          ELSE /\ result' = result
               /\ pc' = "await_gather"
               /\ task' = [tk EXCEPT
                     ![WRITING] = Running(WritingInput(q, combined)),
                     ![VALIDATION] = Running(ValidationInput(combined))]

\* agents.py:133-157 on the research results: merge, then either the
\* sentinel return or the creation of the writing and validation tasks and
\* the suspension at the gather of line 160.
MergeAndFanOut(q, results, tk) ==
    LET combined == CombineResearch(results)
    IN /\ combined_research' = combined
       /\ IF combined = <<>>
          THEN /\ result' = Some(SENTINEL)
               /\ pc' = "returned"
               /\ task' = tk
          ELSE /\ result' = result
               /\ pc' = "await_gather"
               /\ task' = [tk EXCEPT
                     ![WRITING] = Running(WritingInput(q, combined)),
                     ![VALIDATION] = Running(ValidationInput(combined))]

\* variant: the web research task is created whether or not it was asked for
CreateTasksAlwaysWeb(ids, web) ==
    (IF Selected(ids) THEN <<DOCUMENT_RESEARCH>> ELSE <<>>) \o <<WEB_RESEARCH>>

\* agents.py:109-125: the task list for the parameters
CreateTasks(ids, web) ==
    (IF Selected(ids) THEN <<DOCUMENT_RESEARCH>> ELSE <<>>)
        \o (IF web THEN <<WEB_RESEARCH>> ELSE <<>>)

\* The call of execute_agents_parallel with bound parameters: lines 109-131
\* up to the first await, or through to the return of line 141 when no
\* research task was created.
Enter(q, ids, web) ==
    LET created == CreateTasks(ids, web)
        tk == [n \in TaskNames |->
                  IF n = DOCUMENT_RESEARCH /\ Contains(created, n)
                  THEN Running(ResearchInput(q))
                  ELSE IF n = WEB_RESEARCH /\ Contains(created, n)
                  THEN Running(WebInput(q))
                  ELSE NoTask]
    IN /\ query' = q
       /\ doc_ids' = ids
       /\ include_web_search' = web
       /\ tasks' = created
       /\ idx' = 1
       /\ research_results' = EmptyDict
       /\ IF created = <<>>
          THEN MergeAndFanOut(q, EmptyDict, tk)
          ELSE /\ pc' = "await_research"
               /\ task' = tk
               /\ UNCHANGED <<combined_research, result>>
       /\ UNCHANGED <<answer, validation, sources, settled>>

\* Binding of positional arguments to (query, doc_ids=None,
\* include_web_search=False), agents.py:108: None when Python raises
\* TypeError for too many arguments.
Bind(args) ==
    IF Len(args) > ExecParams THEN None
    ELSE Some([query |-> args[1],
               doc_ids |-> IF Len(args) >= 2 THEN args[2] ELSE None,
               include_web_search |-> IF Len(args) >= 3 THEN args[3] ELSE FALSE])

\* A handler of main.py awaiting execute_agents_parallel(*args)
Call(name, args) ==
    /\ endpoint' = name
    /\ LET bound == Bind(args)
       IN IF bound = None
          THEN /\ http' = "error"
               /\ exception' = "TypeError"
               /\ UNCHANGED runVars
          ELSE /\ http' = "awaiting"
               /\ exception' = exception
               /\ Enter(bound[1].query, bound[1].doc_ids, bound[1].include_web_search)
    /\ UNCHANGED <<response, storeVars>>

OptionalDocIds == {None} \cup {Some(l) : l \in DocIdLists}

\* main.py:68-72
Query ==
    /\ http = "idle"
    /\ \E q \in Queries, ids \in OptionalDocIds : Call("query", <<q, ids>>)

\* main.py:80-88
CombinedQuery ==
    /\ http = "idle"
    /\ \E q \in Queries, ids \in OptionalDocIds, web \in BOOLEAN :
           Call("combined_query", <<q, ids, web>>)

ConversationIds == {"c1", "c2", "c3"}

\* main.py:105-114
AddMessageToConversation ==
    /\ http = "idle"
    /\ \E c \in ConversationIds, q \in Queries, ids \in OptionalDocIds, web \in BOOLEAN :
           Call("add_message_to_conversation", <<q, ids, web, c>>)

\* variant: the agent is built with the conversation memory of memory.py,
\* which saves the call's output as an assistant row when the call returns
TaskCompletesSavingContext(n) ==
    /\ task[n].state = "running"
    /\ \E d \in AgentDicts(OutputsOf(n)) :
           /\ task' = [task EXCEPT ![n].state = "done", ![n].result = Some(d)]
           /\ messages' = Append(messages,
                  [id |-> Len(messages) + 1, conversation_id |-> "c1",
                   role |-> "assistant",
                   content |-> Get(d, "output", NO_INFORMATION),
                   metadata |-> None])
    /\ settled' = Append(settled, n)
    /\ UNCHANGED <<endpoint, http, response, query, doc_ids, include_web_search,
                   pc, tasks, idx, research_results, combined_research, answer,
                   validation, sources, result, exception, conversations,
                   last_read>>

\* An agent call resolves: AgentExecutor.ainvoke returns its dict
TaskCompletes(n) ==
    /\ task[n].state = "running"
    /\ \E d \in AgentDicts(OutputsOf(n)) :
           task' = [task EXCEPT ![n].state = "done", ![n].result = Some(d)]
    /\ settled' = Append(settled, n)
    /\ UNCHANGED <<endpoint, http, response, query, doc_ids, include_web_search,
                   pc, tasks, idx, research_results, combined_research, answer,
                   validation, sources, result, exception, storeVars>>

\* An agent call raises (LLM endpoint, index or search failure)
TaskFails(n) ==
    /\ task[n].state = "running"
    /\ task' = [task EXCEPT ![n].state = "failed"]
    /\ settled' = Append(settled, n)
    /\ UNCHANGED <<endpoint, http, response, query, doc_ids, include_web_search,
                   pc, tasks, idx, research_results, combined_research, answer,
                   validation, sources, result, exception, storeVars>>

\* agents.py:129-131, `result = await task` resumed with the task's dict;
\* after the last task the code runs on to line 141 or line 160.
AwaitResearchReturns ==
    /\ pc = "await_research"
    /\ task[tasks[idx]].state = "done"
    /\ LET name == tasks[idx]
           text == Get(task[name].result[1], "output", NO_INFORMATION)
           results == [k \in DOMAIN research_results \cup {name} |->
                          IF k = name THEN text ELSE research_results[k]]
       IN /\ research_results' = results
          /\ idx' = idx + 1
          /\ IF idx + 1 > Len(tasks)
             THEN MergeAndFanOut(query, results, task)
             ELSE UNCHANGED <<pc, task, combined_research, result>>
    /\ UNCHANGED <<endpoint, http, response, query, doc_ids, include_web_search,
                   tasks, answer, validation, sources, exception, settled, storeVars>>

\* agents.py:130, `await task` re-raises the task's exception: nothing in
\* execute_agents_parallel catches it.
AwaitResearchRaises ==
    /\ pc = "await_research"
    /\ task[tasks[idx]].state = "failed"
    /\ pc' = "raised"
    /\ exception' = "AgentError"
    /\ UNCHANGED <<endpoint, http, response, query, doc_ids, include_web_search,
                   tasks, idx, task, research_results, combined_research, answer,
                   validation, sources, result, settled, storeVars>>

\* variant: the failure of one generation task cancels the other
GatherRaisesCancelling ==
    /\ pc = "await_gather"
    /\ \E n \in {WRITING, VALIDATION} : task[n].state = "failed"
    /\ pc' = "raised"
    /\ exception' = "AgentError"
    /\ task' = [n \in TaskNames |->
                   IF n \in {WRITING, VALIDATION} /\ task[n].state = "running"
                   THEN [task[n] EXCEPT !.state = "cancelled"]
                   ELSE task[n]]
    /\ UNCHANGED <<endpoint, http, response, query, doc_ids, include_web_search,
                   tasks, idx, research_results, combined_research, answer,
                   validation, sources, result, settled, storeVars>>

\* agents.py:160, asyncio.gather(writing_task, validation_task) without
\* return_exceptions: the first exception of either task is raised to the
\* awaiting coroutine at once; the other task is left as it is.
GatherRaises ==
    /\ pc = "await_gather"
    /\ \E n \in {WRITING, VALIDATION} : task[n].state = "failed"
    /\ pc' = "raised"
    /\ exception' = "AgentError"
    /\ UNCHANGED <<endpoint, http, response, query, doc_ids, include_web_search,
                   tasks, idx, task, research_results, combined_research, answer,
                   validation, sources, result, settled, storeVars>>

\* variant: the gather resumes with the first generation task that is done
GatherReturnsFirstCompleted ==
    /\ pc = "await_gather"
    /\ task[WRITING].state = "done"
    /\ LET a == Get(task[WRITING].result[1], "output", NO_ANSWER)
       IN /\ answer' = a
          /\ validation' = NO_VALIDATION
          /\ sources' = <<>>
          /\ pc' = "returned"
          /\ result' = Some([answer |-> a, validation |-> NO_VALIDATION,
                             sources |-> <<>>])
    /\ UNCHANGED <<endpoint, http, response, query, doc_ids, include_web_search,
                   tasks, idx, task, research_results, combined_research,
                   exception, settled, storeVars>>

\* agents.py:160-211: the gather resumes with both dicts, then the answer
\* assembler runs to the return of line 207 (or to an exception that a try
\* statement lets through).
GatherReturns ==
    /\ pc = "await_gather"
    /\ task[WRITING].state = "done"
    /\ task[VALIDATION].state = "done"
    /\ LET writing_result == task[WRITING].result[1]
           validation_result == task[VALIDATION].result[1]
           a == Get(writing_result, "output", NO_ANSWER)
           v == Get(validation_result, "output", NO_VALIDATION)
           doc == IF DOCUMENT_RESEARCH \in DOMAIN research_results
                  THEN ParseDocumentSources(research_results[DOCUMENT_RESEARCH])
                  ELSE [sources |-> <<>>, error |-> ""]
           web == IF WEB_RESEARCH \in DOMAIN research_results
                  THEN ParseWebSources(research_results[WEB_RESEARCH])
                  ELSE [sources |-> <<>>, error |-> ""]
       IN /\ answer' = a
          /\ validation' = v
          /\ IF Uncaught(doc.error) # ""
             THEN /\ sources' = doc.sources
                  /\ pc' = "raised"
                  /\ exception' = Uncaught(doc.error)
                  /\ result' = result
             ELSE IF Uncaught(web.error) # ""
             THEN /\ sources' = doc.sources
                  /\ pc' = "raised"
                  /\ exception' = Uncaught(web.error)
                  /\ result' = result
             ELSE /\ sources' = doc.sources \o web.sources
                  /\ pc' = "returned"
                  /\ exception' = exception
                  /\ result' = Some([answer |-> a, validation |-> v,
                                     sources |-> doc.sources \o web.sources])
    /\ UNCHANGED <<endpoint, http, response, query, doc_ids, include_web_search,
                   tasks, idx, task, research_results, combined_research,
                   settled, storeVars>>

\* main.py:72, 88: `return result` once execute_agents_parallel returned
Respond ==
    /\ http = "awaiting"
    /\ pc = "returned"
    /\ http' = "returned"
    /\ response' = result
    /\ UNCHANGED <<endpoint, exception, runVars, storeVars>>

\* the exception of execute_agents_parallel leaves the handler
RespondError ==
    /\ http = "awaiting"
    /\ pc = "raised"
    /\ http' = "error"
    /\ UNCHANGED <<endpoint, response, exception, runVars, storeVars>>

----------------------------------------------------------------------------
(* Conversation store, database.py:158-202, memory.py:42-70, main.py:90-103 *)

\* database.py:167-183: one more row; the new row is the last
AddMessage(rows, conversation_id, role, content, metadata) ==
    Append(rows, [id |-> Len(rows) + 1, conversation_id |-> conversation_id,
                  role |-> role, content |-> content, metadata |-> metadata])

\* database.py:185-202: the rows of the conversation, oldest first
\* (ORDER BY created_at; rows are kept here in insertion order)
GetConversationMessages(rows, conversation_id) ==
    SelectSeq(rows, LAMBDA m : m.conversation_id = conversation_id)

\* main.py:90-93 with database.py:158-165
CreateNewConversation ==
    /\ Cardinality(conversations) < MaxConversations
    /\ \E c \in ConversationIds \ conversations : conversations' = conversations \cup {c}
    /\ UNCHANGED <<endpoint, http, response, exception, runVars, messages, last_read>>

\* main.py:100-103
GetConversation ==
    /\ \E c \in ConversationIds :
           last_read' = Some(GetConversationMessages(messages, c))
    /\ UNCHANGED <<endpoint, http, response, exception, runVars, conversations, messages>>

SavedInputs == {[input |-> <<q>>] : q \in Queries} \cup {[question |-> <<>>]}
SavedOutputs ==
    { [output |-> <<"Paris.">>],
      [output |-> <<"Paris.">>, sources |-> <<>>],
      [output |-> <<"Paris.">>, sources |-> <<>>, validation |-> <<"ok">>],
      [answer |-> <<"Paris.">>, sources |-> <<>>] }

\* memory.py:57-63: the metadata of the assistant row (None, or the dict)
Metadata(outputs) ==
    IF "sources" \in DOMAIN outputs \/ "validation" \in DOMAIN outputs
    THEN Some([k \in DOMAIN outputs \cap {"sources", "validation"} |-> outputs[k]])
    ELSE None

\* memory.py:42-70, SQLAlchemyConversationMemory.save_context: the user row
\* when inputs has "input", then the assistant row when outputs has "output".
\* No caller of it exists in main.py or agents.py.
SaveContext ==
    \E c \in conversations, inputs \in SavedInputs, outputs \in SavedOutputs :
        LET afterInput == IF "input" \in DOMAIN inputs
                          THEN AddMessage(messages, c, "user", inputs["input"], None)
                          ELSE messages
            afterOutput == IF "output" \in DOMAIN outputs
                           THEN AddMessage(afterInput, c, "assistant",
                                           outputs["output"], Metadata(outputs))
                           ELSE afterInput
        IN /\ Len(afterOutput) <= MaxMessages
           /\ messages' = afterOutput
           /\ UNCHANGED <<endpoint, http, response, exception, runVars,
                          conversations, last_read>>

----------------------------------------------------------------------------
(* Specifications *)

\* One request served by the orchestration core
Next ==
    \/ Query
    \/ CombinedQuery
    \/ AddMessageToConversation
    \/ \E n \in TaskNames : TaskCompletes(n)
    \/ \E n \in TaskNames : TaskFails(n)
    \/ AwaitResearchReturns
    \/ AwaitResearchRaises
    \/ GatherReturns
    \/ GatherRaises
    \/ Respond
    \/ RespondError

Spec == Init /\ [][Next]_vars

\* The event loop resumes a coroutine whose awaited task has ended and lets
\* a handler whose call has ended respond.  Nothing is assumed of the agent
\* calls: whether they end is a hypothesis of the property.
SpecFair ==
    /\ Spec
    /\ WF_vars(AwaitResearchReturns)
    /\ WF_vars(AwaitResearchRaises)
    /\ WF_vars(GatherReturns)
    /\ WF_vars(GatherRaises)
    /\ WF_vars(Respond)
    /\ WF_vars(RespondError)

\* The conversation endpoints and the message store
NextConv ==
    \/ AddMessageToConversation
    \/ CreateNewConversation
    \/ GetConversation
    \/ SaveContext

SpecConv == Init /\ [][NextConv]_vars

\* The server takes the next request: the frame of the call that ended is
\* gone (the names of agents.py:109-167 are locals of the call), the tables
\* stay as they are.
ServeNext ==
    /\ http \in {"returned", "error"}
    /\ endpoint' = "none"
    /\ http' = "idle"
    /\ response' = None
    /\ exception' = ""
    /\ query' = ""
    /\ doc_ids' = None
    /\ include_web_search' = FALSE
    /\ pc' = "not_called"
    /\ tasks' = <<>>
    /\ idx' = 1
    /\ task' = [n \in TaskNames |-> NoTask]
    /\ research_results' = EmptyDict
    /\ combined_research' = <<>>
    /\ answer' = <<>>
    /\ validation' = <<>>
    /\ sources' = <<>>
    /\ result' = None
    /\ settled' = <<>>
    /\ UNCHANGED storeVars

\* POST /conversations served on the same event loop while a run is suspended
ConcurrentCreate ==
    /\ CreateNewConversation
    /\ Cardinality(conversations') <= MaxSharedRows

\* a save_context of the conversation memory on the same event loop
ConcurrentSave ==
    /\ SaveContext
    /\ Len(messages') <= MaxSharedRows

\* Requests served one after the other by the orchestration core, with the
\* writers of the conversation store running between the steps of a run
NextShared ==
    \/ Query
    \/ CombinedQuery
    \/ AddMessageToConversation
    \/ \E n \in TaskNames : TaskCompletes(n)
    \/ \E n \in TaskNames : TaskFails(n)
    \/ AwaitResearchReturns
    \/ AwaitResearchRaises
    \/ GatherReturns
    \/ GatherRaises
    \/ Respond
    \/ RespondError
    \/ ServeNext
    \/ ConcurrentCreate
    \/ ConcurrentSave

SpecShared == Init /\ [][NextShared]_vars

----------------------------------------------------------------------------
(* Vocabulary of the properties *)

\* the request named no document: doc_ids absent or empty
NoDocuments == doc_ids = None \/ Len(doc_ids[1]) = 0

\* execute_agents_parallel has been called
Called == pc # "not_called"

\* the research stage is over and the evidence has been merged
Merged == pc \in {"await_gather", "returned"} \/ (pc = "raised" /\ task[WRITING].state # "none")

\* the research task n was created / its call ended with a dict
Ran(n) == task[n].state # "none"
Succeeded(n) == task[n].state = "done"

\* position of the first occurrence of a token in a text, 0 when absent
IndexOf(s, tok) ==
    IF Contains(s, tok)
    THEN CHOOSE i \in 1..Len(s) : s[i] = tok /\ \A j \in 1..(i - 1) : s[j] # tok
    ELSE 0

----------------------------------------------------------------------------
(* C1: a call with doc_ids absent or empty and include_web_search false    *)
(* (which is every such POST /query, whose handler passes no web flag)     *)
(* returns exactly the sentinel {answer, sources: []} with no validation   *)
(* field, and no research, writing or validation task is ever created.     *)
C1_NoSourcesSentinel ==
    (Called /\ NoDocuments /\ (~include_web_search \/ endpoint = "query")) =>
        /\ pc = "returned"
        /\ result = Some(SENTINEL)
        /\ DOMAIN result[1] = {"answer", "sources"}
        /\ result[1].sources = <<>>
        /\ tasks = <<>>
        /\ \A n \in TaskNames : task[n].state = "none"
        /\ http = "returned" => response = Some(SENTINEL)

C1_Witness ==
    /\ endpoint = "query"
    /\ doc_ids = Some(<<>>)
    /\ http = "returned"
    /\ response = Some(SENTINEL)

(* C5: when both research tasks ran and succeeded the transcript is the    *)
(* document section followed by the web section, whichever task ended      *)
(* first.                                                                  *)
C5_DocumentBeforeWeb ==
    (Merged /\ Succeeded(DOCUMENT_RESEARCH) /\ Succeeded(WEB_RESEARCH)) =>
        LET d == IndexOf(combined_research, DOCUMENT_HEADER)
            w == IndexOf(combined_research, WEB_HEADER)
            n == Len(combined_research)
        IN /\ d = 1
           /\ w = Len(research_results[DOCUMENT_RESEARCH]) + 3
           /\ SubSeq(combined_research, 2, w - 2) = research_results[DOCUMENT_RESEARCH]
           /\ combined_research[w - 1] = SECTION_END
           /\ SubSeq(combined_research, w + 1, n - 1) = research_results[WEB_RESEARCH]
           /\ combined_research[n] = SECTION_END

\* the web task ended first, and both sections are non-empty
C5_Witness ==
    /\ Merged
    /\ Succeeded(DOCUMENT_RESEARCH) /\ Succeeded(WEB_RESEARCH)
    /\ settled[1] = WEB_RESEARCH /\ settled[2] = DOCUMENT_RESEARCH
    /\ research_results[DOCUMENT_RESEARCH] # <<>>
    /\ research_results[WEB_RESEARCH] # <<>>

(* C9: the document task is created iff doc_ids is non-empty and the web   *)
(* task iff include_web_search, so 0, 1 or 2 research tasks per run; each  *)
(* task's text is stored under its own bucket name and a bucket exists     *)
(* only for an adapter that was selected.                                  *)
C9_SelectedAdapters ==
    Called =>
        /\ Ran(DOCUMENT_RESEARCH) <=> ~NoDocuments
        /\ Ran(WEB_RESEARCH) <=> include_web_search
        /\ tasks = (IF NoDocuments THEN <<>> ELSE <<DOCUMENT_RESEARCH>>)
                       \o (IF include_web_search THEN <<WEB_RESEARCH>> ELSE <<>>)
        /\ DOMAIN research_results \subseteq {DOCUMENT_RESEARCH, WEB_RESEARCH}
        /\ \A k \in DOMAIN research_results :
               /\ Succeeded(k)
               /\ k = DOCUMENT_RESEARCH => ~NoDocuments
               /\ k = WEB_RESEARCH => include_web_search
               /\ research_results[k] =
                      IF "output" \in DOMAIN task[k].result[1]
                      THEN task[k].result[1].output ELSE NO_INFORMATION
        /\ Merged => DOMAIN research_results = {tasks[i] : i \in 1..Len(tasks)}

\* two tasks ran and each bucket holds its own task's text
C9_Witness ==
    /\ Merged
    /\ Len(tasks) = 2
    /\ DOMAIN research_results = {DOCUMENT_RESEARCH, WEB_RESEARCH}
    /\ research_results[DOCUMENT_RESEARCH] # research_results[WEB_RESEARCH]

----------------------------------------------------------------------------
\* the bucket names and their section headers
ResearchNames == {DOCUMENT_RESEARCH, WEB_RESEARCH}
HeaderOf(n) == IF n = DOCUMENT_RESEARCH THEN DOCUMENT_HEADER ELSE WEB_HEADER

\* the adapter's call ended with a non-empty text / with nothing (an empty
\* text, or a dict without output)
ReturnedText(n) ==
    /\ Succeeded(n)
    /\ "output" \in DOMAIN task[n].result[1]
    /\ task[n].result[1].output # <<>>
ReturnedNothing(n) == Succeeded(n) /\ ~ReturnedText(n)

\* the research stage is over and no research task raised
ResearchDone ==
    /\ Called
    /\ pc # "await_research"
    /\ \A n \in ResearchNames : Ran(n) => Succeeded(n)

(* C2 (as claimed): if the document research task raises while the web     *)
(* research task succeeds the run does not abort: the document bucket is   *)
(* omitted and the returned result holds a generated answer and no record  *)
(* of type document.                                                       *)
C2_DocumentFailureDegrades ==
    (task[DOCUMENT_RESEARCH].state = "failed" /\ Succeeded(WEB_RESEARCH)) =>
        /\ pc # "raised"
        /\ http # "error"
        /\ DOCUMENT_RESEARCH \notin DOMAIN research_results
        /\ pc = "returned" =>
               /\ "answer" \in DOMAIN result[1]
               /\ result[1].answer # NO_SOURCES_ANSWER
               /\ \A i \in 1..Len(result[1].sources) :
                      result[1].sources[i].type # "document"

C4_GenerationFailureDegrades ==
    ((task[WRITING].state = "failed" \/ task[VALIDATION].state = "failed")
         /\ pc # "await_gather") =>
        /\ pc = "returned"
        /\ exception = ""
        /\ task[WRITING].state = "failed" => result[1].answer = NO_ANSWER
        /\ task[VALIDATION].state = "failed" => result[1].validation = NO_VALIDATION

(* C6 (as claimed): when exactly one research adapter returns a non-empty  *)
(* result the transcript holds only that adapter's section; the adapter    *)
(* that returned nothing or did not run contributes no section.            *)
C6_OnlyNonEmptyBucket ==
    \A n \in ResearchNames :
        (Merged /\ ReturnedText(n) /\ \A m \in ResearchNames \ {n} : ~ReturnedText(m)) =>
            combined_research = <<HeaderOf(n)>> \o research_results[n] \o <<SECTION_END>>

(* C6 (amended): an adapter that did not run contributes no section, so    *)
(* when exactly one adapter ran the transcript is that adapter's section   *)
(* alone, its text in the original order; an adapter that ran and returned *)
(* nothing still contributes its header, followed by its empty text or by  *)
(* "No information found." when its result had no output.                  *)
C6_SectionPerAdapterThatRan ==
    Merged =>
        \A n \in ResearchNames :
            LET h == IndexOf(combined_research, HeaderOf(n))
                text == IF "output" \in DOMAIN task[n].result[1]
                        THEN task[n].result[1].output ELSE NO_INFORMATION
            IN /\ ~Ran(n) => h = 0
               /\ Ran(n) =>
                      /\ h > 0
                      /\ SubSeq(combined_research, h + 1, h + Len(text)) = text
                      /\ combined_research[h + Len(text) + 1] = SECTION_END
               /\ (Ran(n) /\ \A m \in ResearchNames \ {n} : ~Ran(m)) =>
                      combined_research = <<HeaderOf(n)>> \o text \o <<SECTION_END>>

\* both adapters ran, the document adapter returned a text and the web
\* adapter an empty one, and the transcript holds both sections
C6_Witness ==
    /\ Merged
    /\ ReturnedText(DOCUMENT_RESEARCH)
    /\ task[WEB_RESEARCH].result = Some([output |-> <<>>])
    /\ Contains(combined_research, WEB_HEADER)

\* the tokens a generation task can answer with, or that stand in for it
GenerationTokens(outs, placeholder) ==
    UNION {{t[i] : i \in 1..Len(t)} : t \in outs \cup {placeholder}}

\* the evidence transcript inside the writing / the validation prompt
WritingTranscript == SubSeq(task[WRITING].input, 4, Len(task[WRITING].input))
ValidationTranscript == SubSeq(task[VALIDATION].input, 2, Len(task[VALIDATION].input))

(* C7: in every run that reaches synthesis the writing task and the        *)
(* validation task are created together, each with the same transcript,    *)
(* the merged one; once they exist neither prompt nor the transcript       *)
(* changes, and neither prompt holds the other task's output.              *)
C7_SharedTranscript ==
    /\ [](Ran(WRITING) \/ Ran(VALIDATION) =>
            /\ Ran(WRITING) /\ Ran(VALIDATION)
            /\ combined_research # <<>>
            /\ WritingTranscript = combined_research
            /\ ValidationTranscript = combined_research
            /\ task[WRITING].input[2] = query
            /\ \A tok \in GenerationTokens(WritingOutputs, NO_ANSWER) :
                   ~Contains(task[VALIDATION].input, tok)
            /\ \A tok \in GenerationTokens(ValidationOutputs, NO_VALIDATION) :
                   ~Contains(task[WRITING].input, tok))
    /\ [][/\ Ran(WRITING) =>
                /\ task'[WRITING].input = task[WRITING].input
                /\ task'[VALIDATION].input = task[VALIDATION].input
                /\ combined_research' = combined_research
          /\ (~Ran(WRITING) /\ Ran(WRITING)') =>
                /\ task'[WRITING].result = None
                /\ task'[VALIDATION].result = None
                /\ task'[VALIDATION].state = "running"]_vars

\* both sections are in the transcript; the writing task has answered while
\* the validation task is still running on the prompt it was created with
C7_Witness ==
    /\ pc = "await_gather"
    /\ Succeeded(WRITING)
    /\ task[VALIDATION].state = "running"
    /\ Contains(combined_research, DOCUMENT_HEADER)
    /\ Contains(combined_research, WEB_HEADER)
    /\ ValidationTranscript = combined_research

(* C8: source extraction never fails the request: whatever text the        *)
(* research buckets hold, a run whose research and generation tasks all    *)
(* succeeded returns a result with answer, validation and a sources list,  *)
(* and no exception leaves execute_agents_parallel.                        *)
C8_ExtractionNeverRaises ==
    (Succeeded(WRITING) /\ Succeeded(VALIDATION) /\ pc # "await_gather") =>
        /\ pc = "returned"
        /\ exception = ""
        /\ DOMAIN result[1] = {"answer", "validation", "sources"}
        /\ result[1].sources = sources
        /\ http # "error"
        /\ http = "returned" => response = result

\* returned with a document text that holds the word results and cannot be
\* parsed, and a web text that announces search results and lists none
C8_Witness ==
    /\ http = "returned"
    /\ DOMAIN research_results = ResearchNames
    /\ Contains(research_results[DOCUMENT_RESEARCH], RESULTS)
    /\ Contains(research_results[WEB_RESEARCH], SEARCH_RESULTS)
    /\ Len(research_results[WEB_RESEARCH]) = 2
    /\ DOMAIN response[1] = {"answer", "validation", "sources"}

(* C10 (as claimed): a message posted to a conversation is answered with   *)
(* the orchestration result, and the final answer and sources are appended *)
(* to that conversation's message log.                                     *)
C10_PostedMessageIsLogged ==
    (endpoint = "add_message_to_conversation" /\ http # "idle") =>
        /\ http \in {"awaiting", "returned"}
        /\ exception = ""
        /\ http = "returned" =>
               /\ response = result
               /\ \E i \in 1..Len(messages) :
                      /\ messages[i].role = "assistant"
                      /\ messages[i].content = response[1].answer

----------------------------------------------------------------------------
\* a task the run created whose call has not ended
StillRunning(n) == task[n].state = "running"

\* the run has handed control back to its caller
Left == pc \in {"returned", "raised"}

(* C11 (as claimed): join semantics at both fan-out points, failures       *)
(* included: the run never merges while a research task is running, never  *)
(* assembles a result while a generation task is running, and never        *)
(* returns or raises to its caller while a task it created is running.     *)
C11_JoinBeforeLeaving ==
    /\ Merged => \A n \in ResearchNames : ~StillRunning(n)
    /\ pc = "returned" => \A n \in TaskNames : ~StillRunning(n)
    /\ Left => \A n \in TaskNames : ~StillRunning(n)

(* C12: at each fan-out point every selected task is created before the    *)
(* stage waits on any of them: with documents and web search both asked    *)
(* for, both research tasks exist from the first wait on (so the web task  *)
(* can end first), and the validation task exists whenever the run waits   *)
(* for the writing task; the tasks of one point are created in one step,   *)
(* none of them ended.                                                     *)
C12_CreatedBeforeAwaited ==
    /\ [](pc = "await_research" => \A i \in 1..Len(tasks) : Ran(tasks[i]))
    /\ []((Called /\ ~NoDocuments /\ include_web_search) =>
             Ran(DOCUMENT_RESEARCH) /\ Ran(WEB_RESEARCH))
    /\ [](pc = "await_gather" => Ran(WRITING) /\ Ran(VALIDATION))
    /\ [][/\ (\E n \in ResearchNames : ~Ran(n) /\ task'[n].state # "none") =>
                \A i \in 1..Len(tasks') : task'[tasks'[i]].state = "running"
          /\ (\E n \in {WRITING, VALIDATION} : ~Ran(n) /\ task'[n].state # "none") =>
                /\ task'[WRITING].state = "running"
                /\ task'[VALIDATION].state = "running"]_vars

\* the web task ended before the document task, and the validation task
\* before the writing task, which is still running
C12_Witness ==
    /\ pc = "await_gather"
    /\ tasks = <<DOCUMENT_RESEARCH, WEB_RESEARCH>>
    /\ settled = <<WEB_RESEARCH, DOCUMENT_RESEARCH, VALIDATION>>
    /\ StillRunning(WRITING)

(* C13: when one task of a fan-out point fails its sibling is never        *)
(* cancelled by the core: a running task stays running until its own call  *)
(* ends, in a step that is the call's own and moves no other task and not  *)
(* the run.                                                                *)
C13_SiblingNeverCancelled ==
    /\ [](\A n \in TaskNames : task[n].state \in {"none", "running", "done", "failed"})
    /\ [][\A n \in TaskNames :
              StillRunning(n) =>
                  \/ task'[n] = task[n]
                  \/ /\ task'[n].state \in {"done", "failed"}
                     /\ settled' = Append(settled, n)
                     /\ pc' = pc
                     /\ \A m \in TaskNames \ {n} : task'[m] = task[m]]_vars

\* the validation task failed and the run raised; the writing task is
\* still running
C13_Witness ==
    /\ pc = "raised"
    /\ task[VALIDATION].state = "failed"
    /\ StillRunning(WRITING)

----------------------------------------------------------------------------
\* the run returned an assembled result (not the sentinel)
Assembled == pc = "returned" /\ "validation" \in DOMAIN result[1]

\* the records of one type in the returned sources list
RecordsOfType(ty) == SelectSeq(result[1].sources, LAMBDA r : r.type = ty)

\* a web text announces search results
Announces(text) == \E i \in 1..Len(text) : text[i] = SEARCH_RESULTS

\* line i of a web text opens a well-formed record: Title, Snippet, Link
WellFormedAt(text, i) ==
    /\ i + 2 <= Len(text)
    /\ text[i] \in TitleLines
    /\ text[i + 1] \in SnippetLines
    /\ text[i + 2] \in LinkLines

\* a web text has a malformed record: a Title line that opens no
\* well-formed record
Malformed(text) ==
    \E i \in 1..Len(text) : text[i] \in TitleLines /\ ~WellFormedAt(text, i)

\* the well-formed records that precede every malformed one
KeptAt(text) ==
    {i \in 1..Len(text) :
        /\ WellFormedAt(text, i)
        /\ \A j \in 1..(i - 1) : text[j] \in TitleLines => WellFormedAt(text, j)}

\* a document text on which the parse of lines 175-180 raises
DocumentParseFails(text) ==
    Contains(text, RESULTS) /\ ParseDocumentSources(text).error # ""

----------------------------------------------------------------------------
\* the locator of a record: the link of a web record, the page of a document
\* record
HasLocator(r) == "link" \in DOMAIN r \/ "page" \in DOMAIN r

(* C15: every record of the sources list of a returned result carries a    *)
(* title, a content, a link or locator and a type that is "document" or    *)
(* "web"; a record is of type "document" only if the run has a document    *)
(* bucket and of type "web" only if it has a web bucket; all document      *)
(* records precede all web records.                                        *)
C15_UniformRecords ==
    Assembled =>
        LET recs == result[1].sources
        IN /\ recs = sources
           /\ \A i \in 1..Len(recs) :
                  /\ {"title", "content", "type"} \subseteq DOMAIN recs[i]
                  /\ HasLocator(recs[i])
                  /\ recs[i].type \in {"document", "web"}
                  /\ recs[i].type = "document" =>
                         DOCUMENT_RESEARCH \in DOMAIN research_results
                  /\ recs[i].type = "web" =>
                         WEB_RESEARCH \in DOMAIN research_results
           /\ \A i, j \in 1..Len(recs) :
                  (recs[i].type = "document" /\ recs[j].type = "web") => i < j

\* a run of the web adapter alone returned two records
C15_Witness ==
    /\ Assembled
    /\ DOMAIN research_results = {WEB_RESEARCH}
    /\ Len(result[1].sources) = 2
    /\ result[1].sources[1].type = "web"
    /\ result[1].sources[2].link = "https://b.example"

----------------------------------------------------------------------------
\* the stage steps of a run: research, merge, synthesis, assembly, or
\* research, merge, sentinel; an exception may leave any waiting stage
StageOrder ==
    {<<"not_called", "await_research">>, <<"await_research", "await_gather">>,
     <<"await_gather", "returned">>,
     <<"not_called", "returned">>, <<"await_research", "returned">>,
     <<"not_called", "await_gather">>,
     <<"await_research", "raised">>, <<"await_gather", "raised">>}

(* C16: under fair scheduling, if every research and generation call the   *)
(* run launches eventually completes (time and again no call is pending,   *)
(* and no call has failed), the run eventually returns; it                 *)
(* returns exactly one result, which never changes afterwards; it follows  *)
(* the stage order research, merge, synthesis, assembly (or research,      *)
(* merge, sentinel: a return that skips the synthesis is the sentinel,     *)
(* the synthesis starts from the merged transcript); and there is no       *)
(* timeout: when the run returns, every call it launched has completed.    *)
C16_EventuallyReturnsInStageOrder ==
    /\ []<>(\A n \in TaskNames : ~StillRunning(n))
           => (Called ~> (pc = "returned" \/ \E n \in TaskNames : task[n].state = "failed"))
    /\ [](pc = "returned" <=> result # None)
    /\ [](pc = "returned" => \A n \in TaskNames : Ran(n) => Succeeded(n))
    /\ [](pc = "await_gather" =>
             /\ \A i \in 1..Len(tasks) : Succeeded(tasks[i])
             /\ combined_research = CombineResearch(research_results))
    /\ [][/\ pc' # pc => <<pc, pc'>> \in StageOrder
          /\ pc = "returned" => (pc' = pc /\ result' = result)
          /\ (pc' = "returned" /\ pc # "await_gather" /\ pc # "returned") =>
                 (result' = Some(SENTINEL)
                     /\ combined_research' = CombineResearch(research_results'))
          /\ (pc = "await_gather" /\ pc' = "returned") =>
                 "validation" \in DOMAIN result'[1]]_vars

\* all four calls completed, the run returned an assembled result and the
\* handler responded with it
C16_Witness ==
    /\ Assembled
    /\ Len(settled) = 4
    /\ \A n \in TaskNames : Succeeded(n)
    /\ http = "returned"
    /\ response = result

----------------------------------------------------------------------------
\* the tables of the conversation store
Tables == <<conversations, messages>>

\* what the names of a run hold is what its own parameters and the dicts of
\* its own calls make them: buckets, transcript, prompts, then the result
OwnResult ==
    /\ \A n \in DOMAIN research_results :
           /\ Succeeded(n)
           /\ research_results[n] = Get(task[n].result[1], "output", NO_INFORMATION)
    /\ pc = "await_gather" =>
           /\ combined_research = CombineResearch(research_results)
           /\ task[WRITING].input = WritingInput(query, combined_research)
           /\ task[VALIDATION].input = ValidationInput(combined_research)
    /\ Assembled =>
           result[1] =
               [answer |-> Get(task[WRITING].result[1], "output", NO_ANSWER),
                validation |-> Get(task[VALIDATION].result[1], "output", NO_VALIDATION),
                sources |->
                    (IF DOCUMENT_RESEARCH \in DOMAIN research_results
                     THEN ParseDocumentSources(research_results[DOCUMENT_RESEARCH]).sources
                     ELSE <<>>)
                    \o (IF WEB_RESEARCH \in DOMAIN research_results
                        THEN ParseWebSources(research_results[WEB_RESEARCH]).sources
                        ELSE <<>>)]

====
